---- MODULE Spec2Model ----
(***************************************************************************)
(* Model of src/src/spotlight_others.rs: the SpotlightManager, its         *)
(* shortcut callbacks and its focus observer, together with the host       *)
(* toolkit state they act on (window visibility, OS focus, the global      *)
(* shortcut registry and the queue of undelivered window events).          *)
(*                                                                         *)
(* Execution contexts.  Window events and shortcut callbacks are run by    *)
(* the toolkit's dispatch loop, one callback at a time; the public         *)
(* methods of the manager are called from application threads.  A          *)
(* callback of the loop is one action.  init_spotlight_window, which       *)
(* holds the registered_window lock across several registry calls, is one  *)
(* action per call it makes, so that the loop and other threads interleave *)
(* with it.                                                                *)
(***************************************************************************)
EXTENDS Integers, Sequences, FiniteSets, TLC

\* ------------------------------------------------------------------ bounds
Windows == {"main", "aux"}
Threads == {"t1", "t2"}
MaxPending == 1

\* ------------------------------------------------------- Option<T> values
None == <<>>
Some(x) == <<x>>
unwrap_or(opt, default) == IF opt = None THEN default ELSE opt[1]

\* ------------------------------------------------------- configurations
ConfigFull ==
  [windows |-> Some(<< [label |-> "main", shortcut |-> Some("Cmd+K"), auto_hide |-> None],
                       [label |-> "aux", shortcut |-> Some("Cmd+J"), auto_hide |-> Some(FALSE)] >>),
   global_close_shortcut |-> Some("Cmd+Shift+Esc")]
ConfigNoClose ==
  [windows |-> Some(<< [label |-> "main", shortcut |-> Some("Cmd+K"), auto_hide |-> Some(TRUE)],
                       [label |-> "aux", shortcut |-> None, auto_hide |-> Some(FALSE)] >>),
   global_close_shortcut |-> None]
ConfigScenario ==
  [windows |-> Some(<< [label |-> "main", shortcut |-> Some("Cmd+K"), auto_hide |-> Some(TRUE)] >>),
   global_close_shortcut |-> Some("Cmd+Shift+Esc")]
ConfigAbsent == [windows |-> None, global_close_shortcut |-> Some("Cmd+Shift+Esc")]
ConfigEmpty == [windows |-> Some(<<>>), global_close_shortcut |-> Some("Cmd+Shift+Esc")]
Configs == {ConfigFull, ConfigNoClose, ConfigScenario, ConfigAbsent, ConfigEmpty}

\* Toolkit calls that can be made to fail during one operation ("none": no call fails).
ShowFaults == {"none", "is_visible", "show", "set_focus", "hwnd"}
HideFaults == {"none", "is_visible", "hide"}
ObserverFaults == {"none", "is_registered", "register", "unregister", "hide", "emit"}

VARIABLES
  config,             \* SpotlightManager.config
  registered_window,  \* SpotlightManager.registered_window (the Vec inside the Mutex)
  lockHolder,         \* the context holding the Mutex, or "none"
  poisoned,           \* the Mutex is poisoned
  registry,           \* bindings of the global shortcut registry
  observers,          \* per window, the number of installed on_window_event closures
  visible,            \* per window, the toolkit's visibility
  exists,             \* per window, the window has not been destroyed
  focusOwner,         \* the window holding OS focus, or "none"
  pending,            \* per window, the window events not yet delivered
  app,                \* per application thread, its position inside init_spotlight_window
  loop,               \* position of the dispatch loop
  crashed,            \* a callback of the dispatch loop panicked
  last                \* the operation that completed last

vars == <<config, registered_window, lockHolder, poisoned, registry, observers,
          visible, exists, focusOwner, pending, app, loop, crashed, last>>

\* --------------------------------------------------------------- helpers
Min(S) == CHOOSE x \in S : \A y \in S : x <= y
Contains(seq, x) == \E i \in 1..Len(seq) : seq[i] = x
Count(seq, x) == Cardinality({i \in 1..Len(seq) : seq[i] = x})
VisibleSet(v) == {w \in Windows : v[w]}

\* get_window_config without the comparison of labels.
get_window_config_any_label(w) ==
  IF config.windows = None \/ config.windows[1] = <<>> THEN None
  ELSE Some(config.windows[1][1])

\* get_window_config: the first WindowConfig whose label is the window's.
get_window_config(w) ==
  IF config.windows = None THEN None
  ELSE LET window_configs == config.windows[1]
           hits == {i \in 1..Len(window_configs) : window_configs[i].label = w}
       IN IF hits = {} THEN None ELSE Some(window_configs[Min(hits)])

auto_hide_of(w) == unwrap_or(get_window_config(w)[1].auto_hide, TRUE)

\* ------------------------------------------------- the toolkit's state
\* The part of the state an operation of the loop or a show/hide works on,
\* with the toolkit calls it has made so far.
World == [visible |-> visible, focusOwner |-> focusOwner, pending |-> pending,
          registry |-> registry, calls |-> <<>>]

Call(s, name) == [s EXCEPT !.calls = Append(@, name)]

\* A toolkit call on window w fails when it is the injected fault or the
\* window is gone.
Fails(name, w, f) == f = name \/ ~exists[w]

Notify(p, w, ev) == IF w \in Windows /\ observers[w] > 0 THEN [p EXCEPT ![w] = Append(@, ev)] ELSE p

\* OS focus moves to x (a window or "none"): the old owner is sent
\* Focused(false), the new one Focused(true).
MoveFocus(s, x) ==
  IF s.focusOwner = x THEN s
  ELSE [s EXCEPT !.focusOwner = x,
                 !.pending = Notify(Notify(@, s.focusOwner, "FocusLost"), x, "FocusGained")]

window_show(s, w) == [Call(s, "show") EXCEPT !.visible[w] = TRUE]
window_set_focus(s, w) == MoveFocus(Call(s, "set_focus"), w)
window_hide(s, w) ==
  LET s1 == [Call(s, "hide") EXCEPT !.visible[w] = FALSE]
  IN IF s.focusOwner = w THEN MoveFocus(s1, "none") ELSE s1

\* bring_window_to_front: ShowWindow(hwnd, SW_RESTORE); SetForegroundWindow(hwnd).
bring_window_to_front(s, w) ==
  MoveFocus([Call(Call(s, "ShowWindow"), "SetForegroundWindow") EXCEPT !.visible[w] = TRUE], w)

\* SpotlightManager::show without the test of the current visibility.
show_unchecked(s, w, f) ==
  LET s1 == Call(s, "is_visible") IN
  IF Fails("is_visible", w, f) THEN [s |-> s1, r |-> "FailedToCheckWindowVisibility"]
  ELSE IF Fails("show", w, f) THEN [s |-> Call(s1, "show"), r |-> "FailedToShowWindow"]
  ELSE LET s2 == window_show(s1, w) IN
       IF Fails("set_focus", w, f) THEN [s |-> Call(s2, "set_focus"), r |-> "FailedToShowWindow"]
       ELSE LET s3 == window_set_focus(s2, w) IN
            IF Fails("hwnd", w, f) THEN [s |-> Call(s3, "hwnd"), r |-> "panic"]
            ELSE [s |-> bring_window_to_front(Call(s3, "hwnd"), w), r |-> "Ok"]

\* ------------------------------------------------ SpotlightManager::show
show(s, w, f) ==
  LET s1 == Call(s, "is_visible") IN
  IF Fails("is_visible", w, f) THEN [s |-> s1, r |-> "FailedToCheckWindowVisibility"]
  ELSE IF s.visible[w] THEN [s |-> s1, r |-> "Ok"]
  ELSE IF Fails("show", w, f) THEN [s |-> Call(s1, "show"), r |-> "FailedToShowWindow"]
  ELSE LET s2 == window_show(s1, w) IN
       IF Fails("set_focus", w, f) THEN [s |-> Call(s2, "set_focus"), r |-> "FailedToShowWindow"]
       ELSE LET s3 == window_set_focus(s2, w) IN
            IF Fails("hwnd", w, f) THEN [s |-> Call(s3, "hwnd"), r |-> "panic"]
            ELSE [s |-> bring_window_to_front(Call(s3, "hwnd"), w), r |-> "Ok"]

\* ------------------------------------------------ SpotlightManager::hide
hide(s, w, f) ==
  LET s1 == Call(s, "is_visible") IN
  IF Fails("is_visible", w, f) THEN [s |-> s1, r |-> "FailedToCheckWindowVisibility"]
  ELSE IF ~s.visible[w] THEN [s |-> s1, r |-> "Ok"]
  ELSE IF Fails("hide", w, f) THEN [s |-> Call(s1, "hide"), r |-> "FailedToHideWindow"]
  ELSE [s |-> window_hide(s1, w), r |-> "Ok"]

\* ------------------------------------------ the global shortcut registry
ToggleBinding(combo, w) == [combo |-> combo, kind |-> "toggle", label |-> w]
CloseBinding(combo) == [combo |-> combo, kind |-> "close", label |-> ""]
is_registered(reg, combo) == \E b \in reg : b.combo = combo

\* GlobalShortcutManager::register: at most one binding per combination.
registry_register(reg, b, f) ==
  IF f = "register" \/ is_registered(reg, b.combo)
  THEN [reg |-> reg, ok |-> FALSE]
  ELSE [reg |-> reg \cup {b}, ok |-> TRUE]

registry_unregister(reg, combo, f) ==
  IF f = "unregister" \/ ~is_registered(reg, combo)
  THEN [reg |-> reg, ok |-> FALSE]
  ELSE [reg |-> {b \in reg : b.combo # combo}, ok |-> TRUE]

\* register_shortcut_for_window
register_shortcut_for_window(reg, w, window_config, f) ==
  IF window_config.shortcut = None THEN [reg |-> reg, r |-> "Ok"]
  ELSE LET o == registry_register(reg, ToggleBinding(window_config.shortcut[1], w), f)
       IN [reg |-> o.reg, r |-> IF o.ok THEN "Ok" ELSE "Other"]

\* The is_registered query of register_close_shortcut with a failed query
\* taken for "not registered".
close_shortcut_query_blind(reg, f) ==
  IF config.global_close_shortcut = None THEN "Ok"
  ELSE IF f = "is_registered" THEN "register"
  ELSE IF ~is_registered(reg, config.global_close_shortcut[1]) THEN "register"
  ELSE "Ok"

\* register_close_shortcut, up to and including the is_registered query:
\* "Ok" (nothing to do), "Other" (the query failed) or "register".
close_shortcut_query(reg, f) ==
  IF config.global_close_shortcut = None THEN "Ok"
  ELSE IF f = "is_registered" THEN "Other"
  ELSE IF ~is_registered(reg, config.global_close_shortcut[1]) THEN "register"
  ELSE "Ok"

\* register_close_shortcut, the register call that follows the query.
close_shortcut_register(reg, f) ==
  LET o == registry_register(reg, CloseBinding(config.global_close_shortcut[1]), f)
  IN [reg |-> o.reg, r |-> IF o.ok THEN "Ok" ELSE "Runtime"]

\* register_close_shortcut with an empty combination taken when none is
\* configured, instead of returning at once.
register_close_shortcut_default_combo(s, f) ==
  LET close_shortcut == unwrap_or(config.global_close_shortcut, "")
      s1 == Call(s, "is_registered")
  IN IF f = "is_registered" THEN [s |-> s1, r |-> "Other"]
     ELSE IF is_registered(s.registry, close_shortcut) THEN [s |-> s1, r |-> "Ok"]
     ELSE LET o == registry_register(s.registry, CloseBinding(close_shortcut), f)
          IN [s |-> [Call(s1, "register") EXCEPT !.registry = o.reg],
              r |-> IF o.ok THEN "Ok" ELSE "Runtime"]

\* register_close_shortcut run without interruption (in a callback of the loop).
register_close_shortcut(s, f) ==
  IF config.global_close_shortcut = None THEN [s |-> s, r |-> "Ok"]
  ELSE LET s1 == Call(s, "is_registered")
           q == close_shortcut_query(s.registry, f)
       IN IF q # "register" THEN [s |-> s1, r |-> q]
          ELSE LET o == close_shortcut_register(s.registry, f)
               IN [s |-> [Call(s1, "register") EXCEPT !.registry = o.reg], r |-> o.r]

\* unregister_close_shortcut with the test of `registered` inverted.
unregister_close_shortcut_inverted(s, f) ==
  IF config.global_close_shortcut = None THEN [s |-> s, r |-> "Ok"]
  ELSE LET s1 == Call(s, "is_registered")
           close_shortcut == config.global_close_shortcut[1]
       IN IF f = "is_registered" THEN [s |-> s1, r |-> "Other"]
          ELSE IF is_registered(s.registry, close_shortcut) THEN [s |-> s1, r |-> "Ok"]
          ELSE LET o == registry_unregister(s.registry, close_shortcut, f)
               IN [s |-> [Call(s1, "unregister") EXCEPT !.registry = o.reg],
                   r |-> IF o.ok THEN "Ok" ELSE "Runtime"]

\* unregister_close_shortcut
unregister_close_shortcut(s, f) ==
  IF config.global_close_shortcut = None THEN [s |-> s, r |-> "Ok"]
  ELSE LET s1 == Call(s, "is_registered")
           close_shortcut == config.global_close_shortcut[1]
       IN IF f = "is_registered" THEN [s |-> s1, r |-> "Other"]
          ELSE IF ~is_registered(s.registry, close_shortcut) THEN [s |-> s1, r |-> "Ok"]
          ELSE LET o == registry_unregister(s.registry, close_shortcut, f)
               IN [s |-> [Call(s1, "unregister") EXCEPT !.registry = o.reg],
                   r |-> IF o.ok THEN "Ok" ELSE "Runtime"]

\* The focus observer with auto_hide ignored: it always hides.
focus_observer_always_hide(s, w, auto_hide, ev, f) ==
  IF ev = "FocusLost"
  THEN LET u == unregister_close_shortcut(s, f) IN
       IF u.r # "Ok" THEN [s |-> u.s, r |-> "panic"]
       ELSE IF Fails("hide", w, f) THEN [s |-> Call(u.s, "hide"), r |-> "panic"]
            ELSE [s |-> window_hide(u.s, w), r |-> "Ok"]
  ELSE LET g == register_close_shortcut(s, f) IN
       [s |-> g.s, r |-> IF g.r = "Ok" THEN "Ok" ELSE "panic"]

\* The closure with the result of the unregistration discarded instead of
\* unwrapped: it hides or notifies whether or not the step succeeded.
focus_observer_discard_unregister(s, w, auto_hide, ev, f) ==
  IF ev = "FocusLost"
  THEN LET u == unregister_close_shortcut(s, f) IN
       IF auto_hide
       THEN IF Fails("hide", w, f) THEN [s |-> Call(u.s, "hide"), r |-> "panic"]
            ELSE [s |-> window_hide(u.s, w), r |-> "Ok"]
       ELSE IF Fails("emit", w, f) THEN [s |-> Call(u.s, "emit"), r |-> "panic"]
            ELSE [s |-> Call(u.s, "emit"), r |-> "Ok"]
  ELSE LET g == register_close_shortcut(s, f) IN
       [s |-> g.s, r |-> IF g.r = "Ok" THEN "Ok" ELSE "panic"]

\* ------------------------------------------------- the focus observer
\* The closure handle_focus_state_change installs, run on one window event.
\* Every Result is unwrapped: a failure is a panic.
focus_observer(s, w, auto_hide, ev, f) ==
  IF ev = "FocusLost"
  THEN LET u == unregister_close_shortcut(s, f) IN
       IF u.r # "Ok" THEN [s |-> u.s, r |-> "panic"]
       ELSE IF auto_hide
            THEN IF Fails("hide", w, f) THEN [s |-> Call(u.s, "hide"), r |-> "panic"]
                 ELSE [s |-> window_hide(u.s, w), r |-> "Ok"]
            ELSE IF Fails("emit", w, f) THEN [s |-> Call(u.s, "emit"), r |-> "panic"]
                 ELSE [s |-> Call(u.s, "emit"), r |-> "Ok"]
  ELSE LET g == register_close_shortcut(s, f) IN
       [s |-> g.s, r |-> IF g.r = "Ok" THEN "Ok" ELSE "panic"]

\* The event is handed to each of the n closures installed on the window.
RECURSIVE on_window_event(_, _, _, _, _)
on_window_event(s, w, ev, f, n) ==
  IF n = 0 THEN [s |-> s, r |-> "Ok"]
  ELSE LET o == focus_observer(s, w, auto_hide_of(w), ev, f)
       IN IF o.r # "Ok" THEN o ELSE on_window_event(o.s, w, ev, f, n - 1)

\* The toggle closure without the test of visibility: it always shows.
toggle_callback_always_show(s, w, f) ==
  IF Fails("is_visible", w, f) THEN [s |-> Call(s, "is_visible"), r |-> "panic"]
  ELSE LET o == show(Call(s, "is_visible"), w, f)
       IN [s |-> o.s, r |-> IF o.r = "Ok" THEN "Ok" ELSE "panic"]

\* ------------------------------------------------- shortcut callbacks
\* The closure register_shortcut_for_window binds to the toggle shortcut.
toggle_callback(s, w, f) ==
  IF Fails("is_visible", w, f) THEN [s |-> Call(s, "is_visible"), r |-> "panic"]
  ELSE LET o == IF s.visible[w] THEN hide(Call(s, "is_visible"), w, f)
                ELSE show(Call(s, "is_visible"), w, f)
       IN [s |-> o.s, r |-> IF o.r = "Ok" THEN "Ok" ELSE "panic"]

\* The loop of the close closure over the snapshot window_labels, from
\* index i on; the k-th hide call fails (k = 0: none does).
RECURSIVE hide_all(_, _, _, _)
hide_all(s, window_labels, i, k) ==
  IF i > Len(window_labels) THEN [s |-> s, r |-> "Ok"]
  ELSE LET label == window_labels[i] IN
       IF ~exists[label] THEN hide_all(s, window_labels, i + 1, k)
       ELSE IF k = 1 THEN [s |-> Call(s, "hide"), r |-> "panic"]
       ELSE hide_all(window_hide(s, label), window_labels, i + 1, IF k = 0 THEN 0 ELSE k - 1)

\* The close closure hiding the focused window only.
close_callback_focused_only(s, k) ==
  IF poisoned THEN [s |-> s, r |-> "panic"]
  ELSE IF s.focusOwner \in Windows /\ Contains(registered_window, s.focusOwner)
       THEN hide_all(s, <<s.focusOwner>>, 1, k)
       ELSE [s |-> s, r |-> "Ok"]

\* The closure register_close_shortcut binds to the close shortcut, once
\* it has the lock.
close_callback(s, k) ==
  IF poisoned THEN [s |-> s, r |-> "panic"]
  ELSE LET window_labels == registered_window
       IN hide_all(s, window_labels, 1, k)

\* ------------------------------------------------------------ the state
Idle == [pc |-> "idle", w |-> ""]
NoOp == [op |-> "none", w |-> "", r |-> "Ok", calls |-> <<>>, was |-> {}]
\* op on window w ended with r after the toolkit calls `calls`; `was` are the
\* windows visible when it started.
Done(op, w, r, calls) == [op |-> op, w |-> w, r |-> r, calls |-> calls, was |-> VisibleSet(visible)]

Init ==
  /\ config \in Configs
  /\ registered_window = <<>>
  /\ lockHolder = "none"
  /\ poisoned = FALSE
  /\ registry = {}
  /\ observers = [w \in Windows |-> 0]
  /\ visible = [w \in Windows |-> FALSE]
  /\ exists = [w \in Windows |-> TRUE]
  /\ focusOwner = "none"
  /\ pending = [w \in Windows |-> <<>>]
  /\ app = [t \in Threads |-> Idle]
  /\ loop = "idle"
  /\ crashed = FALSE
  /\ last = NoOp

\* Room for the window events one operation can cause.
PendingRoom == \A w \in Windows : Len(pending[w]) < MaxPending

Commit(s) ==
  /\ visible' = s.visible
  /\ focusOwner' = s.focusOwner
  /\ pending' = s.pending
  /\ registry' = s.registry

\* ------------------------------------- operations of application threads
\* SpotlightManager::show called by the application.
Show(w, f) ==
  /\ ~crashed /\ PendingRoom
  /\ LET o == show(World, w, f) IN
       /\ Commit(o.s)
       /\ last' = Done("show", w, o.r, o.s.calls)
  /\ UNCHANGED <<config, registered_window, lockHolder, poisoned, observers, exists, app, loop, crashed>>

\* SpotlightManager::hide called by the application.
Hide(w, f) ==
  /\ ~crashed /\ PendingRoom
  /\ LET o == hide(World, w, f) IN
       /\ Commit(o.s)
       /\ last' = Done("hide", w, o.r, o.s.calls)
  /\ UNCHANGED <<config, registered_window, lockHolder, poisoned, observers, exists, app, loop, crashed>>

\* init_spotlight_window returns r on thread t; the MutexGuard, if held, is dropped.
Return(t, r) ==
  /\ app' = [app EXCEPT ![t] = Idle]
  /\ lockHolder' = IF lockHolder = t THEN "none" ELSE lockHolder
  /\ last' = [op |-> "init", w |-> app[t].w, r |-> r, calls |-> <<>>, was |-> {}]

Goto(t, pc) == app' = [app EXCEPT ![t].pc = pc]

\* init_spotlight_window without the test of `registered`.
InitCall_no_contains(t, w) ==
  /\ ~crashed /\ app[t].pc = "idle" /\ exists[w]
  /\ IF get_window_config(w) = None
     THEN /\ last' = [op |-> "init", w |-> w, r |-> "Ok", calls |-> <<>>, was |-> {}]
          /\ UNCHANGED <<app, lockHolder>>
     ELSE /\ lockHolder = "none"
          /\ IF poisoned
             THEN /\ last' = [op |-> "init", w |-> w, r |-> "Mutex", calls |-> <<>>, was |-> {}]
                  /\ UNCHANGED <<app, lockHolder>>
             ELSE /\ app' = [app EXCEPT ![t] = [pc |-> "toggle", w |-> w]]
                  /\ lockHolder' = t
                  /\ UNCHANGED last
  /\ UNCHANGED <<config, registered_window, poisoned, registry, observers,
                 visible, exists, focusOwner, pending, loop, crashed>>

\* init_spotlight_window taking the data of a poisoned lock instead of failing.
InitCall_ignore_poison(t, w) ==
  /\ ~crashed /\ app[t].pc = "idle" /\ exists[w]
  /\ IF get_window_config(w) = None
     THEN /\ last' = [op |-> "init", w |-> w, r |-> "Ok", calls |-> <<>>, was |-> {}]
          /\ UNCHANGED <<app, lockHolder>>
     ELSE /\ lockHolder = "none"
          /\ IF Contains(registered_window, w)
             THEN /\ last' = [op |-> "init", w |-> w, r |-> "Ok", calls |-> <<>>, was |-> {}]
                  /\ UNCHANGED <<app, lockHolder>>
             ELSE /\ app' = [app EXCEPT ![t] = [pc |-> "toggle", w |-> w]]
                  /\ lockHolder' = t
                  /\ UNCHANGED last
  /\ UNCHANGED <<config, registered_window, poisoned, registry, observers,
                 visible, exists, focusOwner, pending, loop, crashed>>

\* init_spotlight_window entering its steps without waiting for the lock.
InitCall_unlocked(t, w) ==
  /\ ~crashed /\ app[t].pc = "idle" /\ exists[w]
  /\ IF get_window_config(w) = None
     THEN /\ last' = [op |-> "init", w |-> w, r |-> "Ok", calls |-> <<>>, was |-> {}]
          /\ UNCHANGED <<app, lockHolder>>
     ELSE IF poisoned
          THEN /\ last' = [op |-> "init", w |-> w, r |-> "Mutex", calls |-> <<>>, was |-> {}]
               /\ UNCHANGED <<app, lockHolder>>
          ELSE IF Contains(registered_window, w)
          THEN /\ last' = [op |-> "init", w |-> w, r |-> "Ok", calls |-> <<>>, was |-> {}]
               /\ UNCHANGED <<app, lockHolder>>
          ELSE /\ app' = [app EXCEPT ![t] = [pc |-> "toggle", w |-> w]]
               /\ lockHolder' = t
               /\ UNCHANGED last
  /\ UNCHANGED <<config, registered_window, poisoned, registry, observers,
                 visible, exists, focusOwner, pending, loop, crashed>>

\* init_spotlight_window up to the test of `registered`: get_window_config,
\* registered_window.lock() (the call waits while another context holds the
\* lock) and contains().
InitCall(t, w) ==
  /\ ~crashed /\ app[t].pc = "idle" /\ exists[w]
  /\ IF get_window_config(w) = None
     THEN /\ last' = [op |-> "init", w |-> w, r |-> "Ok", calls |-> <<>>, was |-> {}]
          /\ UNCHANGED <<app, lockHolder>>
     ELSE /\ lockHolder = "none"
          /\ IF poisoned
             THEN /\ last' = [op |-> "init", w |-> w, r |-> "Mutex", calls |-> <<>>, was |-> {}]
                  /\ UNCHANGED <<app, lockHolder>>
             ELSE IF Contains(registered_window, w)
             THEN /\ last' = [op |-> "init", w |-> w, r |-> "Ok", calls |-> <<>>, was |-> {}]
                  /\ UNCHANGED <<app, lockHolder>>
             ELSE /\ app' = [app EXCEPT ![t] = [pc |-> "toggle", w |-> w]]
                  /\ lockHolder' = t
                  /\ UNCHANGED last
  /\ UNCHANGED <<config, registered_window, poisoned, registry, observers,
                 visible, exists, focusOwner, pending, loop, crashed>>

\* init_spotlight_window, register_shortcut_for_window(..)?
InitToggle(t, f) ==
  /\ ~crashed /\ app[t].pc = "toggle"
  /\ LET o == register_shortcut_for_window(registry, app[t].w, get_window_config(app[t].w)[1], f) IN
       /\ registry' = o.reg
       /\ IF o.r = "Ok" THEN Goto(t, "close_query") /\ UNCHANGED <<lockHolder, last>>
          ELSE Return(t, o.r)
  /\ UNCHANGED <<config, registered_window, poisoned, observers,
                 visible, exists, focusOwner, pending, loop, crashed>>

\* init_spotlight_window, register_close_shortcut(..)?: the is_registered query.
InitCloseQuery(t, f) ==
  /\ ~crashed /\ app[t].pc = "close_query"
  /\ LET q == close_shortcut_query(registry, f) IN
       IF q = "register" THEN Goto(t, "close_register") /\ UNCHANGED <<lockHolder, last>>
       ELSE IF q = "Ok" THEN Goto(t, "observe") /\ UNCHANGED <<lockHolder, last>>
       ELSE Return(t, q)
  /\ UNCHANGED <<config, registered_window, poisoned, registry, observers,
                 visible, exists, focusOwner, pending, loop, crashed>>

\* init_spotlight_window, register_close_shortcut(..)?: the register call.
InitCloseRegister(t, f) ==
  /\ ~crashed /\ app[t].pc = "close_register"
  /\ LET o == close_shortcut_register(registry, f) IN
       /\ registry' = o.reg
       /\ IF o.r = "Ok" THEN Goto(t, "observe") /\ UNCHANGED <<lockHolder, last>>
          ELSE Return(t, o.r)
  /\ UNCHANGED <<config, registered_window, poisoned, observers,
                 visible, exists, focusOwner, pending, loop, crashed>>

\* init_spotlight_window, handle_focus_state_change(..): the closure is installed.
InitObserve(t) ==
  /\ ~crashed /\ app[t].pc = "observe"
  /\ observers' = [observers EXCEPT ![app[t].w] = @ + 1]
  /\ Goto(t, "push")
  /\ UNCHANGED <<config, registered_window, lockHolder, poisoned, registry,
                 visible, exists, focusOwner, pending, loop, crashed, last>>

\* The last step of init_spotlight_window storing the label in place of
\* the labels already there.
InitPush_replace(t) ==
  /\ ~crashed /\ app[t].pc = "push"
  /\ registered_window' = <<app[t].w>>
  /\ Return(t, "Ok")
  /\ UNCHANGED <<config, poisoned, registry, observers,
                 visible, exists, focusOwner, pending, loop, crashed>>

\* init_spotlight_window, registered_window.push(label) and Ok(()).
InitPush(t) ==
  /\ ~crashed /\ app[t].pc = "push"
  /\ registered_window' = Append(registered_window, app[t].w)
  /\ Return(t, "Ok")
  /\ UNCHANGED <<config, poisoned, registry, observers,
                 visible, exists, focusOwner, pending, loop, crashed>>

\* A toolkit call made while init_spotlight_window holds the MutexGuard
\* panics: the guard is dropped during unwinding and poisons the Mutex.
InitPanic(t) ==
  /\ ~crashed /\ app[t].pc \in {"toggle", "close_query", "close_register", "observe"}
  /\ poisoned' = TRUE
  /\ Return(t, "panic")
  /\ UNCHANGED <<config, registered_window, registry, observers,
                 visible, exists, focusOwner, pending, loop, crashed>>

\* ------------------------------------------- callbacks of the dispatch loop
\* The toggle shortcut of window w is pressed.
ToggleFired(w, f) ==
  /\ ~crashed /\ loop = "idle" /\ PendingRoom
  /\ \E b \in registry : b.kind = "toggle" /\ b.label = w
  /\ LET o == toggle_callback(World, w, f) IN
       /\ Commit(o.s)
       /\ crashed' = (o.r = "panic")
       /\ last' = Done("toggle", w, o.r, o.s.calls)
  /\ UNCHANGED <<config, registered_window, lockHolder, poisoned, observers, exists, app, loop>>

\* The close shortcut is pressed: the closure starts and asks for the lock.
CloseFired ==
  /\ ~crashed /\ loop = "idle"
  /\ \E b \in registry : b.kind = "close"
  /\ loop' = "close_lock"
  /\ UNCHANGED <<config, registered_window, lockHolder, poisoned, registry, observers,
                 visible, exists, focusOwner, pending, app, crashed, last>>

\* The close closure gets the lock, copies the labels, drops the lock and hides.
CloseRun(k) ==
  /\ ~crashed /\ loop = "close_lock" /\ lockHolder = "none"
  /\ LET o == close_callback(World, k) IN
       /\ Commit(o.s)
       /\ crashed' = (o.r = "panic")
       /\ last' = Done("close", "", o.r, o.s.calls)
  /\ loop' = "idle"
  /\ UNCHANGED <<config, registered_window, lockHolder, poisoned, observers, exists, app>>

\* The oldest undelivered event of window w is handed to its observers.
Deliver(w, f) ==
  /\ ~crashed /\ loop = "idle" /\ exists[w] /\ pending[w] # <<>>
  /\ LET ev == Head(pending[w])
         o == on_window_event([World EXCEPT !.pending[w] = Tail(@)], w, ev, f, observers[w])
     IN /\ Commit(o.s)
        /\ crashed' = (o.r = "panic")
        /\ last' = Done(ev, w, o.r, o.s.calls)
  /\ UNCHANGED <<config, registered_window, lockHolder, poisoned, observers, exists, app, loop>>

\* ------------------------------------------------------- the environment
\* The user moves OS focus to a visible window or to another application.
FocusChange(x) ==
  /\ ~crashed /\ PendingRoom
  /\ x # focusOwner
  /\ x = "none" \/ (x \in Windows /\ exists[x] /\ visible[x])
  /\ Commit(MoveFocus(World, x))
  /\ UNCHANGED <<config, registered_window, lockHolder, poisoned, observers, exists, app, loop, crashed, last>>

\* A window event other than a focus change (moved, resized, ...) occurs and
\* is handed to the observers of window w.  It changes nothing by itself, so
\* it is taken at the moment of its delivery, behind the events sent before.
OtherEvent(w, f) ==
  /\ ~crashed /\ loop = "idle" /\ exists[w] /\ observers[w] > 0 /\ pending[w] = <<>>
  /\ LET o == on_window_event(World, w, "Moved", f, observers[w]) IN
       /\ Commit(o.s)
       /\ crashed' = (o.r = "panic")
       /\ last' = Done("Moved", w, o.r, o.s.calls)
  /\ UNCHANGED <<config, registered_window, lockHolder, poisoned, observers, exists, app, loop>>

\* The window is destroyed.
Destroy(w) ==
  /\ ~crashed /\ exists[w]
  /\ \A t \in Threads : app[t].w # w
  /\ exists' = [exists EXCEPT ![w] = FALSE]
  /\ visible' = [visible EXCEPT ![w] = FALSE]
  /\ focusOwner' = IF focusOwner = w THEN "none" ELSE focusOwner
  /\ pending' = [pending EXCEPT ![w] = <<>>]
  /\ UNCHANGED <<config, registered_window, lockHolder, poisoned, registry, observers,
                 app, loop, crashed, last>>

Next ==
  \/ \E w \in Windows, f \in ShowFaults : Show(w, f)
  \/ \E w \in Windows, f \in HideFaults : Hide(w, f)
  \/ \E t \in Threads, w \in Windows : InitCall(t, w)
  \/ \E t \in Threads, f \in {"none", "register"} : InitToggle(t, f)
  \/ \E t \in Threads, f \in {"none", "is_registered"} : InitCloseQuery(t, f)
  \/ \E t \in Threads, f \in {"none", "register"} : InitCloseRegister(t, f)
  \/ \E t \in Threads : InitObserve(t)
  \/ \E t \in Threads : InitPush(t)
  \/ \E t \in Threads : InitPanic(t)
  \/ \E w \in Windows, f \in ShowFaults \cup HideFaults : ToggleFired(w, f)
  \/ CloseFired
  \/ \E k \in 0..Cardinality(Windows) : CloseRun(k)
  \/ \E w \in Windows, f \in ObserverFaults : Deliver(w, f)
  \/ \E x \in Windows \cup {"none"} : FocusChange(x)
  \/ \E w \in Windows, f \in {"none", "is_registered", "register"} : OtherEvent(w, f)
  \/ \E w \in Windows : Destroy(w)

Spec == Init /\ [][Next]_vars

TypeOK ==
  /\ config \in Configs
  /\ lockHolder \in Threads \cup {"none"}
  /\ \A w \in Windows : Len(pending[w]) <= MaxPending + 1

\* ========================================================== properties
HasConfig(w) ==
  /\ config.windows # None
  /\ \E i \in 1..Len(config.windows[1]) : config.windows[1][i].label = w
Initialized(w) == Contains(registered_window, w)
CloseRegistered ==
  /\ config.global_close_shortcut # None
  /\ is_registered(registry, config.global_close_shortcut[1])
ToggleBound(w) == \E b \in registry : b.kind = "toggle" /\ b.label = w
Quiescent ==
  /\ ~crashed /\ loop = "idle"
  /\ \A t \in Threads : app[t].pc = "idle"
  /\ \A w \in Windows : pending[w] = <<>>
CountCalls(calls, name) == Cardinality({i \in 1..Len(calls) : calls[i] = name})

\* C1: with a global close shortcut configured, whenever every call has
\* returned and every window event has been handled, the close shortcut is
\* registered exactly when some initialized window holds focus.
C1_RegisteredIffFocused ==
  (config.global_close_shortcut # None /\ Quiescent)
    => (CloseRegistered <=> \E w \in Windows : Initialized(w) /\ focusOwner = w)

\* C2: when the close callback completes, every window of the snapshot of
\* registered_window that still exists is hidden, whoever holds focus, and a
\* label whose window is gone gets no hide call and causes no failure.
C2_CloseHidesAll ==
  [][\A k \in 0..Cardinality(Windows) :
       (loop = "close_lock" /\ ~poisoned /\ CloseRun(k)) =>
         LET live == {i \in 1..Len(registered_window) : exists[registered_window[i]]} IN
           /\ (k = 0 \/ k > Cardinality(live)) => last'.r = "Ok"
           /\ last'.r = "Ok" =>
                /\ \A i \in live : ~visible'[registered_window[i]]
                /\ CountCalls(last'.calls, "hide") = Cardinality(live)]_vars

C2_Witness ==
  /\ last.op = "close" /\ last.r = "Ok"
  /\ Len(registered_window) = 2
  /\ \E w \in Windows : Initialized(w) /\ ~exists[w]
  /\ \E w \in Windows : Initialized(w) /\ exists[w] /\ w \in last.was /\ ~visible[w] /\ focusOwner # w
                        /\ pending[w] = <<>>

\* C3: a label occurs at most once in registered_window, a window has at
\* most one observer and one toggle binding, and an init call for a label
\* already in registered_window returns Ok at once, leaving the registry,
\* the observers and registered_window as they were.
C3_InitIdempotent ==
  /\ [](\A w \in Windows :
          /\ Count(registered_window, w) <= 1
          /\ observers[w] <= 1
          /\ Cardinality({b \in registry : b.kind = "toggle" /\ b.label = w}) <= 1
          /\ Initialized(w) => observers[w] = 1)
  /\ [][\A t \in Threads, w \in Windows :
          (Initialized(w) /\ ~poisoned /\ InitCall(t, w)) =>
             /\ last'.op = "init" /\ last'.w = w /\ last'.r = "Ok"
             /\ UNCHANGED <<registry, observers, registered_window, app, lockHolder>>]_vars

C3_Witness ==
  /\ last.op = "init" /\ last.r = "Ok"
  /\ Len(registered_window) = 2
  /\ registered_window[1] = last.w
  /\ observers[last.w] = 1

\* C4: when the observer of an initialized window handles a focus-lost event
\* to the end, a window whose auto_hide is true or absent is hidden and
\* gets no notification, and a window whose auto_hide is false keeps its
\* visibility and gets exactly one "did resign focus" notification.
C4_FocusLost ==
  [][\A w \in Windows, f \in ObserverFaults :
       (/\ pending[w] # <<>> /\ Head(pending[w]) = "FocusLost" /\ Initialized(w)
        /\ last'.op = "FocusLost" /\ last'.r = "Ok" /\ Deliver(w, f)) =>
          IF unwrap_or(get_window_config(w)[1].auto_hide, TRUE)
          THEN ~visible'[w] /\ CountCalls(last'.calls, "emit") = 0
          ELSE /\ visible'[w] = visible[w]
               /\ CountCalls(last'.calls, "emit") = 1
               /\ CountCalls(last'.calls, "hide") = 0]_vars

C4_Witness ==
  /\ last.op = "FocusLost" /\ last.r = "Ok" /\ Initialized(last.w)
  /\ get_window_config(last.w)[1].auto_hide = Some(FALSE)
  /\ visible[last.w] /\ last.calls = <<"is_registered", "unregister", "emit">>

\* C5: the toggle callback of an initialized window, run to the end, leaves a
\* hidden window visible and focused after the toolkit's show and set_focus
\* and the native front-bringing calls, and leaves a visible window hidden.
C5_ToggleRoundTrip ==
  [][\A w \in Windows, f \in ShowFaults \cup HideFaults :
       (last'.op = "toggle" /\ last'.w = w /\ last'.r = "Ok" /\ ToggleFired(w, f)) =>
          IF visible[w]
          THEN ~visible'[w] /\ CountCalls(last'.calls, "hide") = 1
          ELSE /\ visible'[w] /\ focusOwner' = w
               /\ \A c \in {"show", "set_focus", "ShowWindow", "SetForegroundWindow"} :
                     CountCalls(last'.calls, c) = 1
               /\ CountCalls(last'.calls, "hide") = 0]_vars

C5_Witness ==
  /\ last.op = "toggle" /\ last.r = "Ok" /\ Initialized(last.w)
  /\ last.w \in last.was /\ ~visible[last.w]
  /\ pending[last.w] = <<"FocusLost">>

\* C6: init_spotlight_window of a window without a WindowConfig returns Ok
\* and changes neither the registry nor the observers nor registered_window.
C6_InitUnconfigured ==
  [][\A t \in Threads, w \in Windows :
       (~HasConfig(w) /\ InitCall(t, w)) =>
          /\ last'.op = "init" /\ last'.w = w /\ last'.r = "Ok"
          /\ UNCHANGED <<registry, observers, registered_window, app, lockHolder>>]_vars

C6_Witness ==
  /\ last.op = "init" /\ last.r = "Ok" /\ ~HasConfig(last.w)
  /\ config.windows # None /\ config.windows[1] # <<>>
  /\ registered_window # <<>> /\ ~Initialized(last.w)

\* C7: no context is about to issue the register call for the close
\* combination while the registry already holds a binding for it.
C7_NoDuplicateRegister ==
  \A t \in Threads : app[t].pc = "close_register" => ~CloseRegistered

\* C8: in the one-window scenario: a successful show leaves main visible; a
\* handled focus-lost event leaves it hidden and the close shortcut
\* unregistered; a handled focus-gained event leaves the close shortcut
\* registered; the close callback leaves main hidden and ends without
\* failure also when main was hidden already.
C8_Scenario ==
  [][config = ConfigScenario =>
       /\ \A f \in ShowFaults : (last'.op = "show" /\ last'.r = "Ok" /\ Show("main", f)) => visible'["main"]
       /\ \A f \in ObserverFaults :
            (pending["main"] # <<>> /\ last'.r = "Ok" /\ Deliver("main", f)) =>
               IF Head(pending["main"]) = "FocusLost"
               THEN ~visible'["main"] /\ ~CloseRegistered'
               ELSE CloseRegistered'
       /\ (loop = "close_lock" /\ ~poisoned /\ Initialized("main") /\ CloseRun(0)) =>
             ~visible'["main"] /\ last'.r = "Ok" /\ ~crashed']_vars

C8_Witness ==
  /\ config = ConfigScenario
  /\ last.op = "close" /\ last.r = "Ok" /\ last.calls = <<"hide">>
  /\ Initialized("main") /\ "main" \notin last.was /\ ~visible["main"]
  /\ CloseRegistered

\* C9: a show or hide that returns an error leaves the window's visibility
\* as it was before the call.
C9_ErrorKeepsVisibility ==
  [][\A w \in Windows :
       /\ \A f \in ShowFaults :
            (Show(w, f) /\ last'.r \notin {"Ok", "panic"}) => visible'[w] = visible[w]
       /\ \A f \in HideFaults :
            (Hide(w, f) /\ last'.r \notin {"Ok", "panic"}) => visible'[w] = visible[w]]_vars

\* C10: with the registered_window lock poisoned, init_spotlight_window of a
\* configured window returns the mutex error and changes neither the
\* registry nor the observers nor registered_window, and the close callback
\* stops at the lock without hiding a window.
C10_PoisonedLock ==
  [][/\ \A t \in Threads, w \in Windows :
          (poisoned /\ HasConfig(w) /\ InitCall(t, w)) =>
             /\ last'.op = "init" /\ last'.w = w /\ last'.r = "Mutex"
             /\ UNCHANGED <<registry, observers, registered_window, app, lockHolder>>
     /\ \A k \in 0..Cardinality(Windows) :
          (loop = "close_lock" /\ poisoned /\ CloseRun(k)) =>
             /\ last'.r = "panic" /\ last'.calls = <<>>
             /\ UNCHANGED <<visible, registry, registered_window>>]_vars

C10_Witness ==
  /\ poisoned /\ last.op = "init" /\ last.r = "Mutex" /\ HasConfig(last.w)
  /\ ~Initialized(last.w)

\* The toolkit calls of one run of the focus observer respect the guard: a
\* register call only after a query that found no binding, an unregister
\* call only after a query that found one, and after a failed query no
\* further call and an unchanged registry.
GuardedCalls(calls, f) ==
  /\ CountCalls(calls, "register") + CountCalls(calls, "unregister") <= 1
  /\ CountCalls(calls, "register") = 1 => calls[1] = "is_registered" /\ ~CloseRegistered
  /\ CountCalls(calls, "unregister") = 1 => calls[1] = "is_registered" /\ CloseRegistered
  /\ (f = "is_registered" /\ config.global_close_shortcut # None) =>
        calls = <<"is_registered">> /\ registry' = registry /\ last'.r = "panic"

\* C11: register is issued for the close shortcut only after an
\* is_registered query that reported no binding, unregister only after one
\* that reported a binding, and a failed query ends the operation with the
\* generic error, without a register or unregister call and with the
\* registry unchanged.
C11_GuardedByQuery ==
  [][/\ \A w \in Windows, f \in ObserverFaults :
          (pending[w] # <<>> /\ last'.w = w /\ Deliver(w, f)) => GuardedCalls(last'.calls, f)
     /\ \A w \in Windows, f \in {"none", "is_registered", "register"} :
          (last'.op = "Moved" /\ last'.w = w /\ OtherEvent(w, f)) => GuardedCalls(last'.calls, f)
     /\ \A t \in Threads :
          /\ (app[t].pc = "close_query" /\ app'[t].pc = "close_register") => ~CloseRegistered
          /\ (app[t].pc = "close_query" /\ config.global_close_shortcut # None
              /\ InitCloseQuery(t, "is_registered")) =>
                /\ last'.op = "init" /\ last'.r = "Other" /\ app'[t] = Idle
                /\ registry' = registry]_vars

C11_Witness ==
  /\ last.op = "FocusLost" /\ last.r = "panic" /\ last.calls = <<"is_registered">>
  /\ CloseRegistered /\ visible[last.w]

\* C12: show of a visible window and hide of a hidden window return Ok
\* after the visibility query alone: no show, set_focus, hide or native
\* call is made and visibility, focus and pending events stay as they were.
C12_NoOpWhenInState ==
  [][\A w \in Windows :
       /\ \A f \in ShowFaults \ {"is_visible"} :
            (visible[w] /\ exists[w] /\ last'.op = "show" /\ last'.w = w /\ Show(w, f)) =>
               /\ last'.r = "Ok" /\ last'.calls = <<"is_visible">>
               /\ UNCHANGED <<visible, focusOwner, pending, registry>>
       /\ \A f \in HideFaults \ {"is_visible"} :
            (~visible[w] /\ exists[w] /\ last'.op = "hide" /\ last'.w = w /\ Hide(w, f)) =>
               /\ last'.r = "Ok" /\ last'.calls = <<"is_visible">>
               /\ UNCHANGED <<visible, focusOwner, pending, registry>>]_vars

C12_Witness ==
  /\ last.op = "show" /\ last.r = "Ok" /\ last.calls = <<"is_visible">>
  /\ last.w \in last.was /\ visible[last.w] /\ focusOwner # last.w

\* Position of a step of init_spotlight_window in the order of its steps.
InitRank(pc) ==
  CASE pc = "toggle" -> 1 [] pc = "close_query" -> 2 [] pc = "close_register" -> 3
    [] pc = "observe" -> 4 [] pc = "push" -> 5 [] OTHER -> 6

\* C13: a first init runs its steps in the order toggle shortcut, close
\* shortcut, observer, label, all of them under the lock; the label is
\* pushed only with the toggle shortcut bound (if configured) and the
\* observer installed, and when the init has returned Ok the close
\* shortcut (if configured) is registered.
C13_FirstInitOrder ==
  [][\A t \in Threads :
       /\ app[t].pc # "idle" => lockHolder = t
       /\ (app[t].pc # "idle" /\ app'[t] # app[t]) => InitRank(app'[t].pc) > InitRank(app[t].pc)
       /\ (app[t].pc = "push" /\ InitPush(t)) =>
            LET w == app[t].w IN
            /\ Contains(registered_window', app[t].w) /\ ~Initialized(w) /\ last'.r = "Ok"
            /\ observers[w] = 1
            /\ get_window_config(w)[1].shortcut # None => ToggleBound(w)
            /\ config.global_close_shortcut # None => CloseRegistered']_vars

\* The calls of a focus-lost handling: every registry call comes before
\* the hide or the notification.
UnregisterFirst(calls) ==
  \A i, j \in 1..Len(calls) :
     (calls[i] \in {"is_registered", "unregister"} /\ calls[j] \in {"hide", "emit"}) => i < j

\* C14: on a focus-lost notification the observer unregisters the close
\* shortcut before it hides the window or emits the notification, and a
\* failure of the unregistration (of the query or of the unregister call)
\* aborts the handler: no hide call, no notification, visibility unchanged.
C14_UnregisterThenHide ==
  [][\A w \in Windows, f \in ObserverFaults :
       (pending[w] # <<>> /\ Head(pending[w]) = "FocusLost" /\ observers[w] > 0
          /\ last'.w = w /\ Deliver(w, f)) =>
         LET calls == last'.calls
             acted == CountCalls(calls, "hide") + CountCalls(calls, "emit")
         IN /\ UnregisterFirst(calls)
            /\ acted > 0 => ~CloseRegistered'
            /\ (CloseRegistered /\ acted > 0) => CountCalls(calls, "unregister") = 1
            /\ (config.global_close_shortcut # None /\ f = "is_registered")
                  => last'.r = "panic" /\ acted = 0 /\ visible' = visible
            /\ (CloseRegistered /\ f = "unregister")
                  => last'.r = "panic" /\ acted = 0 /\ visible' = visible /\ CloseRegistered'
            /\ (last'.r = "Ok" /\ auto_hide_of(w)) => ~visible'[w] /\ CountCalls(calls, "hide") = 1
            /\ (last'.r = "Ok" /\ ~auto_hide_of(w)) => visible' = visible /\ CountCalls(calls, "emit") = 1]_vars

C14_Witness ==
  /\ last.op = "FocusLost" /\ last.r = "panic"
  /\ last.calls = <<"is_registered", "unregister">>
  /\ visible[last.w] /\ auto_hide_of(last.w) /\ CloseRegistered

\* C15: a window event that is neither focus-gained nor focus-lost, handled
\* by the observer of an initialized window with no toolkit call failing,
\* leaves the registry, the visibility of the windows and
\* registered_window unchanged.
C15_OtherEventFrame ==
  [][\A w \in Windows :
       (Initialized(w) /\ last'.op = "Moved" /\ last'.w = w /\ OtherEvent(w, "none")) =>
         UNCHANGED <<registry, visible, registered_window>>]_vars

\* Focus has moved from window a to window b, one of the two notifications
\* has been handled (the last completed operation, without failure) and
\* the other is the only event still undelivered; no init is in progress.
HalfHandled(a, b, handled, waiting) ==
  /\ a # b /\ Initialized(a) /\ Initialized(b) /\ focusOwner = b
  /\ config.global_close_shortcut # None
  /\ \A t \in Threads : app[t].pc = "idle"
  /\ last.op = handled.ev /\ last.w = handled.w /\ last.r = "Ok"
  /\ pending[handled.w] = <<>> /\ pending[waiting.w] = <<waiting.ev>>

\* C16: when focus moves from initialized window a to initialized window
\* b, the close shortcut is registered once both notifications have been
\* handled, in either order of delivery.
C16_FocusHandover ==
  [][\A a, b \in Windows :
       LET lost == [ev |-> "FocusLost", w |-> a]
           gained == [ev |-> "FocusGained", w |-> b]
       IN /\ (HalfHandled(a, b, lost, gained) /\ Deliver(b, "none")) => CloseRegistered'
          /\ (HalfHandled(a, b, gained, lost) /\ Deliver(a, "none")) => CloseRegistered']_vars

\* A step of init_spotlight_window made by thread t while it holds the lock.
HolderStep(t) ==
  \/ \E f \in {"none", "register"} : InitToggle(t, f)
  \/ \E f \in {"none", "is_registered"} : InitCloseQuery(t, f)
  \/ \E f \in {"none", "register"} : InitCloseRegister(t, f)
  \/ InitObserve(t)
  \/ InitPush(t)

C18_InitAllOrNothing ==
  \A w \in Windows :
     (\A t \in Threads : app[t].w # w) =>
       /\ observers[w] > 0 <=> Initialized(w)
       /\ ToggleBound(w) => Initialized(w)
       /\ (Initialized(w) /\ get_window_config(w)[1].shortcut # None) => ToggleBound(w)

\* C19: registered_window holds only labels that have a WindowConfig, and
\* no step removes a label from it: the old sequence is a prefix of the
\* new one.
C19_RegisteredOnlyGrows ==
  /\ [](\A i \in 1..Len(registered_window) : HasConfig(registered_window[i]))
  /\ [][/\ Len(registered_window') >= Len(registered_window)
        /\ SubSeq(registered_window', 1, Len(registered_window)) = registered_window]_vars

C19_Witness ==
  /\ Len(registered_window) = 2
  /\ last.op = "close" /\ last.r = "Ok" /\ CountCalls(last.calls, "hide") = 2
  /\ \A w \in Windows : ~visible[w]

\* The calls made to the shortcut registry.
RegistryCalls(calls) ==
  CountCalls(calls, "is_registered") + CountCalls(calls, "register") + CountCalls(calls, "unregister")

\* C20: with no global_close_shortcut configured, the observer makes no
\* call to the registry and does not change it, a focus-gained or other
\* event is handled without failure whatever registry call would fail, a
\* focus-lost event still hides (auto_hide) or notifies the window and
\* fails only if that hide or notification fails, and init passes the
\* close-shortcut step without a registry call or an error.
C20_NoCloseShortcut ==
  [][config.global_close_shortcut = None =>
       /\ \A w \in Windows, f \in ObserverFaults :
            (pending[w] # <<>> /\ observers[w] > 0 /\ last'.w = w /\ Deliver(w, f)) =>
              LET calls == last'.calls
                  ev == Head(pending[w])
              IN /\ RegistryCalls(calls) = 0 /\ registry' = registry
                 /\ ev = "FocusGained" => last'.r = "Ok" /\ calls = <<>>
                 /\ ev = "FocusLost" =>
                      /\ calls = IF auto_hide_of(w) THEN <<"hide">> ELSE <<"emit">>
                      /\ last'.r = IF f = calls[1] THEN "panic" ELSE "Ok"
                      /\ last'.r = "Ok" => visible'[w] = (visible[w] /\ ~auto_hide_of(w))
       /\ \A w \in Windows, f \in {"none", "is_registered", "register"} :
            (last'.op = "Moved" /\ last'.w = w /\ OtherEvent(w, f)) =>
              last'.r = "Ok" /\ last'.calls = <<>> /\ registry' = registry
       /\ \A t \in Threads :
            /\ app[t].pc # "close_register"
            /\ \A f \in {"none", "is_registered"} :
                 (app[t].pc = "close_query" /\ InitCloseQuery(t, f)) =>
                   app'[t].pc = "observe" /\ registry' = registry /\ last' = last]_vars

C20_Witness ==
  /\ config.global_close_shortcut = None
  /\ last.op = "FocusLost" /\ last.r = "Ok" /\ last.calls = <<"emit">>
  /\ Initialized(last.w) /\ visible[last.w] /\ focusOwner # last.w

====
